---- MODULE Spec2Model ----
(***************************************************************************)
(* A model of discogstagger's release-to-album mapping,                    *)
(* src/discogstagger/discogsalbum.py (class DiscogsAlbum), and of the two  *)
(* uses the tagging script makes of the mapped release afterwards.         *)
(*                                                                         *)
(* Strings whose characters the code inspects (names, position tokens,     *)
(* the year, the format quantity) are sequences of one-character strings;  *)
(* strings the code only copies or tests for emptiness (titles, durations, *)
(* format descriptions, catalogue numbers) are TLA+ strings.  An optional  *)
(* dictionary key is a record [has, v].  Python indices are 0-based and    *)
(* kept so; Slice translates them.  Newlines do not occur in the modelled  *)
(* alphabets, so "." and "$" of the regular expressions read as "any       *)
(* character" and "end of the string".                                     *)
(*                                                                         *)
(* release.artists and release.data["artists"] are the client library's    *)
(* two views of the same credits and are one sequence of raw names here.   *)
(*                                                                         *)
(* Not modelled: the pass-through fields url, images, genres, styles,      *)
(* notes, master_id and the text dump album_info.                          *)
(***************************************************************************)
EXTENDS Integers, Sequences, FiniteSets, TLC

VARIABLES
    release,        \* the catalog snapshot, self.release (immutable)
    pc,             \* map(): "start", "loop", "done" (returned), "error" (raised)
    err,            \* the exception map() raised, "none" while it has not
    album,          \* map()'s local album, [has |-> FALSE, ...] before line 37 ran
    returned,       \* what map()'s caller received: [has |-> FALSE, ...] or the album
    i,              \* discs_and_tracks: entries of the filtered tracklist consumed
    track_list,     \* discs_and_tracks: the Tracks appended so far
    discsubtitle,   \* discs_and_tracks: the pending subtitle, None as [has |-> FALSE]
    parser_calls,   \* the position tokens disc_and_track_no was called with
    discs,          \* self.discs, [has |-> FALSE] while the attribute does not exist
    tracks_result,  \* outcome of reading the property self.tracks
    tracktotal      \* outcome of a call of tracktotal_on_disc

vars == << release, pc, err, album, returned, i, track_list, discsubtitle,
           parser_calls, discs, tracks_result, tracktotal >>

----------------------------------------------------------------------------
(* Bounds of the model. *)

MaxTracks == 3
MaxFormats == 2
MaxNameLen == 8
MaxTokenLen == 4

----------------------------------------------------------------------------
(* Characters, optional values, Python's slices. *)

Digits == {"0", "1", "2", "3", "4", "5", "6", "7", "8", "9"}

WhiteSpace == {" ", "\t"}

Some(x) == [has |-> TRUE, v |-> x]

Missing == [has |-> FALSE, v |-> <<>>]

Slice(s, a, b) == SubSeq(s, a + 1, b)

SeqsUpTo(S, n) == UNION {[1..k -> S] : k \in 0..n}

DigitVal(c) ==
    CASE c = "0" -> 0 [] c = "1" -> 1 [] c = "2" -> 2 [] c = "3" -> 3
      [] c = "4" -> 4 [] c = "5" -> 5 [] c = "6" -> 6 [] c = "7" -> 7
      [] c = "8" -> 8 [] c = "9" -> 9

RECURSIVE LStrip(_)
LStrip(s) ==
    IF Len(s) > 0 /\ Head(s) \in WhiteSpace THEN LStrip(Tail(s)) ELSE s

RECURSIVE RStrip(_)
RStrip(s) ==
    IF Len(s) > 0 /\ s[Len(s)] \in WhiteSpace
    THEN RStrip(SubSeq(s, 1, Len(s) - 1)) ELSE s

RECURSIVE DecimalValue(_)
DecimalValue(s) ==
    IF Len(s) = 0 THEN 0
    ELSE 10 * DecimalValue(SubSeq(s, 1, Len(s) - 1)) + DigitVal(s[Len(s)])

AllDigits(s) == Len(s) > 0 /\ \A k \in 1..Len(s) : s[k] \in Digits

(* int(s) of a string: surrounding whitespace is dropped, one sign is
   allowed, the rest must be one or more digits; anything else raises
   ValueError (ok = FALSE). *)
PyInt(s) ==
    LET t == RStrip(LStrip(s))
        signed == Len(t) > 0 /\ t[1] \in {"+", "-"}
        body == IF signed THEN Tail(t) ELSE t
    IN  IF AllDigits(body)
        THEN [ok |-> TRUE,
              val |-> IF signed /\ t[1] = "-" THEN 0 - DecimalValue(body)
                      ELSE DecimalValue(body)]
        ELSE [ok |-> FALSE, val |-> 0]

(* str.find(c): the lowest 0-based index of c, -1 when absent. *)
RECURSIVE FindFrom(_, _, _)
FindFrom(s, c, k) ==
    IF k > Len(s) THEN -1
    ELSE IF s[k] = c THEN k - 1
    ELSE FindFrom(s, c, k + 1)

Find(s, c) == FindFrom(s, c, 1)

----------------------------------------------------------------------------
(* Name clean-up. *)

RECURSIVE DigitRun(_, _)
DigitRun(s, k) ==
    IF k <= Len(s) /\ s[k] \in Digits THEN 1 + DigitRun(s, k + 1) ELSE 0

(* The length of the match of \s\(\d+\) that starts at (1-based) k, 0 when
   there is none. *)
DupMatchLen(s, k) ==
    IF k + 1 <= Len(s) /\ s[k] \in WhiteSpace /\ s[k + 1] = "("
    THEN LET n == DigitRun(s, k + 2)
         IN  IF n >= 1 /\ k + 2 + n <= Len(s) /\ s[k + 2 + n] = ")"
             THEN n + 3 ELSE 0
    ELSE 0

(* re.sub: one left-to-right scan, every non-overlapping match dropped. *)
RECURSIVE SubFrom(_, _)
SubFrom(s, k) ==
    IF k > Len(s) THEN <<>>
    ELSE LET m == DupMatchLen(s, k)
         IN  IF m > 0 THEN SubFrom(s, k + m)
             ELSE <<s[k]>> \o SubFrom(s, k + 1)

(* A variant that drops the first match only (re.sub with count=1). *)
RECURSIVE SubFirstFrom(_, _)
SubFirstFrom(s, k) ==
    IF k > Len(s) THEN <<>>
    ELSE LET m == DupMatchLen(s, k)
         IN  IF m > 0 THEN SubSeq(s, k + m, Len(s))
             ELSE <<s[k]>> \o SubFirstFrom(s, k + 1)

clean_duplicate_handling_first(clean_target) == SubFirstFrom(clean_target, 1)

clean_duplicate_handling(clean_target) == SubFrom(clean_target, 1)

TheSuffix(s) ==
    /\ Len(s) >= 5
    /\ s[Len(s) - 4] = ","
    /\ s[Len(s) - 3] \in WhiteSpace
    /\ SubSeq(s, Len(s) - 2, Len(s)) = <<"T", "h", "e">>

clean_name(clean_target) ==
    LET s == clean_duplicate_handling(clean_target)
    IN  IF TheSuffix(s)
        THEN <<"T", "h", "e", " ">> \o SubSeq(s, 1, Len(s) - 5)
        ELSE s

----------------------------------------------------------------------------
(* Album-level properties. *)

gen_artist(artist_data) == artist_data

artists(r) == [k \in 1..Len(r.artists) |-> clean_name(r.artists[k])]

(* A variant that applies the full clean_name rewrite. *)
sort_artist_clean_name(artist_data) ==
    IF Len(artist_data) = 0 THEN [err |-> "IndexError", v |-> <<>>]
    ELSE [err |-> "none", v |-> clean_name(artist_data[1])]

sort_artist(artist_data) ==
    IF Len(artist_data) = 0 THEN [err |-> "IndexError", v |-> <<>>]
    ELSE [err |-> "none", v |-> clean_duplicate_handling(artist_data[1])]

labels_and_numbers(r) ==
    [k \in 1..Len(r.labels) |->
        [name |-> clean_duplicate_handling(r.labels[k].name),
         catno |-> r.labels[k].catno]]

(* good_year.match(...): four digits at the start of the string. *)
YearMatch(s) == Len(s) >= 4 /\ \A k \in 1..4 : s[k] \in Digits

year(r) ==
    IF ~r.year.has THEN [err |-> "KeyError", v |-> <<>>]
    ELSE IF ~YearMatch(r.year.v) THEN [err |-> "AttributeError", v |-> <<>>]
    ELSE [err |-> "none", v |-> SubSeq(r.year.v, 1, 4)]

disctotal(r) ==
    IF Len(r.formats) = 0 THEN [err |-> "IndexError", v |-> 0]
    ELSE IF ~r.formats[1].qty.has THEN [err |-> "KeyError", v |-> 0]
    ELSE IF ~PyInt(r.formats[1].qty.v).ok THEN [err |-> "ValueError", v |-> 0]
    ELSE [err |-> "none", v |-> PyInt(r.formats[1].qty.v).val]

DescriptionHit(format) ==
    /\ format.descriptions.has
    /\ \E k \in 1..Len(format.descriptions.v) :
           format.descriptions.v[k] = "compilation"

RECURSIVE FormatsLoop(_, _)
FormatsLoop(formats, k) ==
    IF k > Len(formats) THEN FALSE
    ELSE IF DescriptionHit(formats[k]) THEN TRUE
    ELSE FormatsLoop(formats, k + 1)

Various == <<"V", "a", "r", "i", "o", "u", "s">>

(* A variant that takes any name starting with "Various". *)
is_compilation_prefix(r) ==
    IF Len(r.artists) = 0 THEN [err |-> "IndexError", v |-> FALSE]
    ELSE IF /\ Len(r.artists[1]) >= Len(Various)
            /\ SubSeq(r.artists[1], 1, Len(Various)) = Various
         THEN [err |-> "none", v |-> TRUE]
    ELSE [err |-> "none", v |-> FormatsLoop(r.formats, 1)]

is_compilation(r) ==
    IF Len(r.artists) = 0 THEN [err |-> "IndexError", v |-> FALSE]
    ELSE IF r.artists[1] = Various THEN [err |-> "none", v |-> TRUE]
    ELSE [err |-> "none", v |-> FormatsLoop(r.formats, 1)]

----------------------------------------------------------------------------
(* Position parsing and the track loop. *)

(* A variant whose track substring starts at the delimiter
   (position[idx:]). *)
disc_and_track_no_at_delimiter(position) ==
    LET dash == Find(position, "-")
        dot == IF dash = -1 THEN Find(position, ".") ELSE dash
        idx == IF dot = -1 THEN 0 ELSE dot
    IN  [tracknumber |-> Slice(position, idx, Len(position)),
         discnumber |-> Slice(position, 0, idx)]

disc_and_track_no(position) ==
    LET dash == Find(position, "-")
        dot == IF dash = -1 THEN Find(position, ".") ELSE dash
        idx == IF dot = -1 THEN 0 ELSE dot
    IN  [tracknumber |-> Slice(position, idx + 1, Len(position)),
         discnumber |-> Slice(position, 0, idx)]

tracklist(r) == SelectSeq(r.tracklist, LAMBDA x : x.type = "Track")

IsSubtitle(t) == t.title # "" /\ t.position = <<>> /\ t.duration = ""

(* A variant that keeps the first subtitle seen. *)
PendingSubtitle_first(pending, t) ==
    IF pending.has THEN pending ELSE Some(t.title)

(* Line 254: a pseudo-subtitle entry's title becomes the pending subtitle,
   whatever was pending. *)
PendingSubtitle(pending, t) == Some(t.title)

(* Lines 240-246: the per-track artist, with the handler of IndexError.
   The handler reads self.artist, an attribute the class does not have. *)
TrackArtist(t) ==
    IF ~t.artists.has THEN [err |-> "KeyError", artist |-> <<>>, sortartist |-> <<>>]
    ELSE IF Len(t.artists.v) = 0
         THEN [err |-> "AttributeError", artist |-> <<>>, sortartist |-> <<>>]
    ELSE [err |-> "none",
          artist |-> gen_artist(t.artists.v),
          sortartist |-> clean_name(t.artists.v[1])]

(* A variant that numbers a track 0 where int() would raise. *)
TrackNumbers_lenient(total, position) ==
    IF total > 1
    THEN LET pos == disc_and_track_no(position)
         IN  [err |-> "none",
              tracknumber |-> PyInt(pos.tracknumber).val,
              discnumber |-> PyInt(pos.discnumber).val,
              parsed |-> {position}]
    ELSE [err |-> "none", tracknumber |-> PyInt(position).val,
          discnumber |-> 1, parsed |-> {}]

(* A variant that sends a release of one disc to the position parser too
   (disctotal >= 1). *)
TrackNumbers_from_one(total, position) ==
    IF total >= 1
    THEN LET pos == disc_and_track_no(position)
         IN  IF ~PyInt(pos.tracknumber).ok \/ ~PyInt(pos.discnumber).ok
             THEN [err |-> "ValueError", tracknumber |-> 0, discnumber |-> 0,
                   parsed |-> {position}]
             ELSE [err |-> "none",
                   tracknumber |-> PyInt(pos.tracknumber).val,
                   discnumber |-> PyInt(pos.discnumber).val,
                   parsed |-> {position}]
    ELSE IF ~PyInt(position).ok
         THEN [err |-> "ValueError", tracknumber |-> 0, discnumber |-> 0,
               parsed |-> {}]
         ELSE [err |-> "none", tracknumber |-> PyInt(position).val,
               discnumber |-> 1, parsed |-> {}]

(* Lines 259-265: the disc and track number of one real track. *)
TrackNumbers(total, position) ==
    IF total > 1
    THEN LET pos == disc_and_track_no(position)
         IN  IF ~PyInt(pos.tracknumber).ok \/ ~PyInt(pos.discnumber).ok
             THEN [err |-> "ValueError", tracknumber |-> 0, discnumber |-> 0,
                   parsed |-> {position}]
             ELSE [err |-> "none",
                   tracknumber |-> PyInt(pos.tracknumber).val,
                   discnumber |-> PyInt(pos.discnumber).val,
                   parsed |-> {position}]
    ELSE IF ~PyInt(position).ok
         THEN [err |-> "ValueError", tracknumber |-> 0, discnumber |-> 0,
               parsed |-> {}]
         ELSE [err |-> "none", tracknumber |-> PyInt(position).val,
               discnumber |-> 1, parsed |-> {}]

(* Line 257: the position of the track made from the entry at 0-based
   index k of the filtered tracklist. *)
TrackPosition(k) == k + 1

(* The containers of the module album, which is not part of the sources
   read here: plain records whose attributes the mapping assigns. *)
NoAlbum ==
    [has |-> FALSE, artists |-> <<>>, sort_artist |-> <<>>, labels |-> <<>>,
     catnumbers |-> <<>>, year |-> <<>>, disctotal |-> 0,
     is_compilation |-> FALSE]

Album(album_artists) == [NoAlbum EXCEPT !.has = TRUE, !.artists = album_artists]

Track(position, artist, title) ==
    [position |-> position, artist |-> artist, title |-> title,
     tracknumber |-> 0, discnumber |-> 0, discsubtitle |-> Missing,
     sortartist |-> <<>>]

(* Lines 37-51 of map(), each assignment in the order of the code; the
   first property that raises ends it. *)
MapAlbum(r) ==
    LET sa == sort_artist(r.artists)
        ln == labels_and_numbers(r)
        y == year(r)
        dt == disctotal(r)
        ic == is_compilation(r)
        a39 == [Album(artists(r)) EXCEPT !.sort_artist = sa.v]
        a42 == [a39 EXCEPT !.catnumbers = [k \in 1..Len(ln) |-> ln[k].catno],
                           !.labels = [k \in 1..Len(ln) |-> ln[k].name]]
        a44 == [a42 EXCEPT !.year = y.v]
        a47 == [a44 EXCEPT !.year = r.country]
        a51 == [a47 EXCEPT !.disctotal = dt.v, !.is_compilation = ic.v]
    IN  IF sa.err # "none" THEN [err |-> sa.err, album |-> NoAlbum]
        ELSE IF y.err # "none" THEN [err |-> y.err, album |-> NoAlbum]
        ELSE IF dt.err # "none" THEN [err |-> dt.err, album |-> NoAlbum]
        ELSE IF ic.err # "none" THEN [err |-> ic.err, album |-> NoAlbum]
        ELSE [err |-> "none", album |-> a51]

(* The property self.tracks, lines 179-226.  Its loop body names
   TrackContainer, which the module neither defines nor imports: the first
   entry of type "Track" raises NameError, unless the artist lookup before
   it has raised already. *)
tracks(r) ==
    LET tl == tracklist(r)
    IN  IF Len(tl) = 0 THEN [state |-> "returned", err |-> "none"]
        ELSE IF TrackArtist(tl[1]).err # "none"
             THEN [state |-> "raised", err |-> TrackArtist(tl[1]).err]
        ELSE [state |-> "raised", err |-> "NameError"]

(* tracktotal_on_disc, lines 162-164: reads self.discs, which no code of
   the class creates. *)
tracktotal_on_disc(d, discnumber) ==
    IF ~d.has THEN [state |-> "raised", err |-> "AttributeError", disc |-> discnumber, v |-> 0]
    ELSE [state |-> "returned", err |-> "none", disc |-> discnumber, v |-> d.v[discnumber]]

----------------------------------------------------------------------------
(* Inputs. *)

Str1 == <<"1">>
Str2 == <<"2">>
NameX == <<"X">>
NameDup == <<"G", " ", "(", "2", ")">>
NameThe == <<"A", ",", " ", "T", "h", "e">>
NameDupThe == <<"G", " ", "(", "2", ")", ",", " ", "T", "h", "e">>
VariousArtists == Various \o <<" ", "A", "r", "t", "i", "s", "t", "s">>

Tokens ==
    { <<"1">>, <<"2">>, <<"A", "1">>, <<"1", "-", "1">>, <<"1", "-", "2">>,
      <<"2", "-", "1">>, <<"1", ".", "2">>, <<"3", "-", "1">> }

Credited == Some(<<NameThe, NameX>>)

EntrySet ==
    {[type |-> "Index Track", title |-> "A", position |-> <<>>,
      duration |-> "", artists |-> Some(<<>>)]}
    \cup {[type |-> "Track", title |-> t, position |-> <<>>,
           duration |-> "", artists |-> Credited] : t \in {"A", "B"}}
    \cup {[type |-> "Track", title |-> "T", position |-> p,
           duration |-> "3:00", artists |-> Credited] : p \in Tokens}
    \cup {[type |-> "Track", title |-> "T", position |-> <<"1">>,
           duration |-> "3:00", artists |-> a] : a \in {Missing, Some(<<>>)}}

Format(q, d) == [qty |-> q, descriptions |-> d]

PlainRelease(formats, tl) ==
    [artists |-> <<NameX>>,
     labels |-> <<[name |-> NameDup, catno |-> "C1"]>>,
     year |-> Some(<<"1", "9", "9", "9">>),
     country |-> <<"U", "K">>,
     formats |-> formats,
     tracklist |-> tl]

Start(r) ==
    /\ release = r
    /\ pc = "start"
    /\ err = "none"
    /\ album = NoAlbum
    /\ returned = NoAlbum
    /\ i = 0
    /\ track_list = <<>>
    /\ discsubtitle = Missing
    /\ parser_calls = {}
    /\ discs = Missing
    /\ tracks_result = [state |-> "unread", err |-> "none"]
    /\ tracktotal = [state |-> "uncalled", err |-> "none", disc |-> 0, v |-> 0]

(* The tracklist varies: every sequence of up to MaxTracks entries, under a
   first format whose quantity is 0, 1, 2 or no number, or under no format. *)
Init ==
    \E fs \in {<<>>} \cup {<<Format(Some(q), Missing)>> :
                                q \in {<<"0">>, Str1, Str2, <<"x">>}} :
    \E tl \in SeqsUpTo(EntrySet, MaxTracks) :
        Start(PlainRelease(fs, tl))

OneTrack(p) ==
    <<[type |-> "Track", title |-> "T", position |-> p,
       duration |-> "3:00", artists |-> Credited]>>

(* The album-level fields vary: the credited artists, the year, and up to
   MaxFormats formats with and without a quantity and a descriptor list. *)
ArtistLists ==
    {<<>>, <<Various>>, <<VariousArtists>>, <<NameX>>, <<NameThe, Various>>,
     <<NameDup, NameX>>, <<NameDupThe, NameThe>>}

Years ==
    {Missing, Some(<<>>), Some(<<"0">>), Some(<<"1", "9", "9", "9">>),
     Some(<<"1", "9", "9", "9", "5">>), Some(<<"c", "1", "9", "9", "9">>)}

FormatSet ==
    {Format(q, d) :
        q \in {Missing, Some(Str1), Some(Str2)},
        d \in {Missing, Some(<<>>), Some(<<"compilation">>),
               Some(<<"Compilation">>), Some(<<"Album", "compilation">>)}}

InitAlbum ==
    \E as \in ArtistLists :
    \E y \in Years :
    \E fs \in SeqsUpTo(FormatSet, MaxFormats) :
        Start([PlainRelease(fs, OneTrack(<<"1", "-", "1">>))
                  EXCEPT !.artists = as, !.year = y])

(* The label name varies: every string of up to MaxNameLen characters over
   a blank, the two parentheses and a digit. *)
NameAlphabet == {" ", "(", ")", "1"}

InitNames ==
    \E name \in SeqsUpTo(NameAlphabet, MaxNameLen) :
        Start([PlainRelease(<<Format(Some(Str1), Missing)>>, OneTrack(Str1))
                  EXCEPT !.labels = <<[name |-> name, catno |-> "C1"]>>])

(* The position token of one track varies: every string of up to MaxTokenLen
   characters, on a release of one, two or three discs. *)
TokenAlphabet == {"1", "2", "-", ".", "A"}

InitParse ==
    \E q \in {Str1, Str2, <<"3">>} :
    \E p \in SeqsUpTo(TokenAlphabet, MaxTokenLen) :
        Start(PlainRelease(<<Format(Some(q), Missing)>>, OneTrack(p)))

----------------------------------------------------------------------------
(* Actions. *)

Raise(e) ==
    /\ pc' = "error"
    /\ err' = e

(* map(), lines 37-51, and the entry of discs_and_tracks, lines 232-235. *)
MapAlbumStep ==
    /\ pc = "start"
    /\ LET m == MapAlbum(release)
       IN  IF m.err # "none"
           THEN /\ Raise(m.err)
                /\ UNCHANGED album
           ELSE /\ pc' = "loop"
                /\ album' = m.album
                /\ UNCHANGED err
    /\ UNCHANGED << release, returned, i, track_list, discsubtitle,
                    parser_calls, discs, tracks_result, tracktotal >>

(* One iteration of the loop of discs_and_tracks, lines 236-274. *)
DiscsAndTracksStep ==
    /\ pc = "loop"
    /\ i < Len(tracklist(release))
    /\ LET t == tracklist(release)[i + 1]
           a == TrackArtist(t)
           n == TrackNumbers(disctotal(release).v, t.position)
           track == [Track(i + 1, a.artist, t.title) EXCEPT
                        !.position = TrackPosition(i),
                        !.tracknumber = n.tracknumber,
                        !.discnumber = n.discnumber,
                        !.discsubtitle = discsubtitle,
                        !.sortartist = a.sortartist,
                        !.artist = a.artist]
       IN  IF a.err # "none"
           THEN /\ Raise(a.err)
                /\ UNCHANGED << i, track_list, discsubtitle, parser_calls >>
           ELSE IF IsSubtitle(t)
           THEN /\ discsubtitle' = PendingSubtitle(discsubtitle, t)
                /\ i' = i + 1
                /\ UNCHANGED << pc, err, track_list, parser_calls >>
           ELSE IF n.err # "none"
           THEN /\ Raise(n.err)
                /\ parser_calls' = parser_calls \cup n.parsed
                /\ UNCHANGED << i, track_list, discsubtitle >>
           ELSE /\ track_list' = Append(track_list, track)
                /\ parser_calls' = parser_calls \cup n.parsed
                /\ i' = i + 1
                /\ UNCHANGED << pc, err, discsubtitle >>
    /\ UNCHANGED << release, album, returned, discs, tracks_result, tracktotal >>

(* map(), line 55: the track list of line 53 is dropped, the album returned. *)
MapReturn ==
    /\ pc = "loop"
    /\ i = Len(tracklist(release))
    /\ pc' = "done"
    /\ returned' = album
    /\ UNCHANGED << release, err, album, i, track_list, discsubtitle,
                    parser_calls, discs, tracks_result, tracktotal >>

(* A caller reads the property tracks (album_info does, line 77). *)
ReadTracks ==
    /\ pc = "done"
    /\ tracks_result.state = "unread"
    /\ tracks_result' = tracks(release)
    /\ UNCHANGED << release, pc, err, album, returned, i, track_list,
                    discsubtitle, parser_calls, discs, tracktotal >>

(* The tagging script asks for a track's disc total
   (scripts/discogs_tagger.py, line 252). *)
CallTracktotal ==
    /\ pc = "done"
    /\ tracktotal.state = "uncalled"
    /\ \E k \in 1..Len(track_list) :
           tracktotal' = tracktotal_on_disc(discs, track_list[k].discnumber)
    /\ UNCHANGED << release, pc, err, album, returned, i, track_list,
                    discsubtitle, parser_calls, discs, tracks_result >>

Next ==
    \/ MapAlbumStep
    \/ DiscsAndTracksStep
    \/ MapReturn
    \/ ReadTracks
    \/ CallTracktotal

Spec == Init /\ [][Next]_vars

SpecAlbum == InitAlbum /\ [][Next]_vars

SpecNames == InitNames /\ [][Next]_vars

SpecParse == InitParse /\ [][Next]_vars

----------------------------------------------------------------------------
(* The claims. *)

Filtered == tracklist(release)

(* The catalog entry a Track was made from: line 257 numbers a Track by the
   index of its entry in the filtered tracklist. *)
Entry(track) == Filtered[track.position]

Range(s) == {s[k] : k \in 1..Len(s)}

SetMax(S) == CHOOSE m \in S : \A x \in S : x <= m

(* C1: when the mapping is done, the positions of the Tracks built are
   exactly 1, 2, ..., n in order, so a pseudo-subtitle entry consumes no
   position value. *)
C1_PositionsContiguous ==
    pc = "done" =>
        \A k \in 1..Len(track_list) : track_list[k].position = k

(* C2: when a mapping completes, discTotal >= 1 and every Track's disc number
   lies in 1..discTotal. *)
C2_DiscNumberInRange ==
    pc = "done" =>
        /\ returned.disctotal >= 1
        /\ \A k \in 1..Len(track_list) :
               track_list[k].discnumber \in 1..returned.disctotal

QuantityParses(r) ==
    /\ Len(r.formats) > 0
    /\ r.formats[1].qty.has
    /\ PyInt(r.formats[1].qty.v).ok

TokenParses(total, p) ==
    IF total > 1
    THEN /\ PyInt(disc_and_track_no(p).tracknumber).ok
         /\ PyInt(disc_and_track_no(p).discnumber).ok
    ELSE PyInt(p).ok

(* C3: the mapping is all-or-nothing.  The caller receives an album only
   from a mapping that ran to its end, with a disc quantity that is present
   and numeric and with every real track's position token parsed; a mapping
   that raised hands the caller no album and no track list; and a missing or
   non-numeric disc quantity makes it raise before any Track is built. *)
C3_AllOrNothing ==
    /\ returned.has =>
           /\ pc = "done"
           /\ i = Len(Filtered)
           /\ QuantityParses(release)
           /\ \A k \in 1..Len(Filtered) :
                  ~IsSubtitle(Filtered[k]) =>
                      TokenParses(returned.disctotal, Filtered[k].position)
    /\ pc = "error" =>
           /\ ~returned.has
           /\ tracks_result.state = "unread"
           /\ tracktotal.state = "uncalled"
    /\ (pc # "start" /\ ~QuantityParses(release)) =>
           /\ pc = "error"
           /\ track_list = <<>>
           /\ i = 0

(* C3's case: a later track's token fails to parse after earlier Tracks were
   built, and the caller gets nothing. *)
C3_Witness ==
    /\ pc = "error"
    /\ err = "ValueError"
    /\ Len(track_list) >= 1
    /\ ~returned.has

ExpectedYear(r) ==
    IF r.year.has /\ YearMatch(r.year.v)
    THEN SubSeq(r.year.v, 1, 4)
    ELSE <<"1", "9", "0", "0">>

(* C4: after a mapping the album's year is the 4-digit run of the catalog's
   year field, or "1900" when the field is absent or does not match, and
   computing the year never raises. *)
C4_YearOrSentinel ==
    /\ returned.has => returned.year = ExpectedYear(release)
    /\ (pc = "error" /\ sort_artist(release.artists).err = "none") =>
           year(release).err = "none"

(* The places j at which token p reads <d>-<t> or <d>.<t>, d and t runs of
   digits. *)
SplitForms(p) ==
    {j \in 1..Len(p) :
        /\ p[j] \in {"-", "."}
        /\ AllDigits(SubSeq(p, 1, j - 1))
        /\ AllDigits(SubSeq(p, j + 1, Len(p)))}

MultiDisc == disctotal(release).err = "none" /\ disctotal(release).v > 1

(* C5: on a multi-disc release, an entry whose token reads <d>-<t> or
   <d>.<t> yields a Track with disc number d and track number t, and its
   token never makes the mapping raise. *)
C5_MultiDiscNumbers ==
    /\ \A k \in 1..i :
           \A j \in SplitForms(Filtered[k].position) :
               MultiDisc =>
                   \E n \in 1..Len(track_list) :
                       /\ track_list[n].position = k
                       /\ track_list[n].discnumber =
                              DecimalValue(SubSeq(Filtered[k].position, 1, j - 1))
                       /\ track_list[n].tracknumber =
                              DecimalValue(SubSeq(Filtered[k].position, j + 1,
                                                  Len(Filtered[k].position)))
    /\ (pc = "error" /\ err = "ValueError" /\ MultiDisc) =>
           SplitForms(Filtered[i + 1].position) = {}

(* C5's case: a token <d>.<t> on a multi-disc release, two digits in d. *)
C5_Witness ==
    /\ pc = "done"
    /\ MultiDisc
    /\ Len(track_list) = 1
    /\ Find(Entry(track_list[1]).position, ".") = 2
    /\ track_list[1].discnumber = 12
    /\ track_list[1].tracknumber = 2

(* C6: on a single-disc release (discTotal not greater than 1) every Track
   has disc number 1 and the integer value of its raw token as track number,
   and the position parser is never called. *)
C6_SingleDisc ==
    (disctotal(release).err = "none" /\ disctotal(release).v <= 1) =>
        /\ parser_calls = {}
        /\ \A k \in 1..Len(track_list) :
               /\ track_list[k].discnumber = 1
               /\ PyInt(Entry(track_list[k]).position).ok
               /\ track_list[k].tracknumber =
                      PyInt(Entry(track_list[k]).position).val

(* C6's case: a single-disc mapping that built two Tracks. *)
C6_Witness ==
    /\ pc = "done"
    /\ returned.disctotal = 1
    /\ Len(track_list) >= 2
    /\ track_list[2].tracknumber = 2

TrackNumbersOn(d) ==
    {track_list[k].tracknumber :
        k \in {n \in 1..Len(track_list) : track_list[n].discnumber = d}}

(* C7: once the tracklist is built, tracktotal_on_disc(d) is the largest
   track number among the Tracks of disc d. *)
C7_TracktotalIsMax ==
    tracktotal.state # "uncalled" =>
        /\ tracktotal.state = "returned"
        /\ tracktotal.v = SetMax(TrackNumbersOn(tracktotal.disc))

(* C8: isCompilation is true exactly when the first credited artist's raw
   name is "Various" or some format has a descriptor equal to "compilation";
   a format without a descriptor list raises nothing. *)
C8_Compilation ==
    /\ album.has =>
           (album.is_compilation <=>
               \/ release.artists[1] = Various
               \/ \E k \in 1..Len(release.formats) :
                      /\ release.formats[k].descriptions.has
                      /\ "compilation" \in Range(release.formats[k].descriptions.v))
    /\ (pc = "error" /\ ~album.has) =>
           \/ sort_artist(release.artists).err # "none"
           \/ year(release).err # "none"
           \/ disctotal(release).err # "none"

(* C8's case: first artist "Various Artists", a format without a descriptor
   list, none with "compilation": not a compilation, and nothing raised. *)
C8_Witness ==
    /\ album.has
    /\ release.artists[1] = VariousArtists
    /\ \E k \in 1..Len(release.formats) : ~release.formats[k].descriptions.has
    /\ ~album.is_compilation

(* Every "(" of s opens a group: a blank before it, digits and ")" after. *)
ParensGrouped(s) ==
    \A k \in 1..Len(s) : s[k] = "(" => (k > 1 /\ DupMatchLen(s, k - 1) > 0)

(* C9 as stated: stripping the duplicate suffix a second time changes
   nothing, for every name. *)
C9_Idempotent ==
    album.has =>
        clean_duplicate_handling(album.labels[1]) = album.labels[1]

(* C9, amended: stripping a second time changes nothing for every name in
   which each "(" opens a " (digits)" group, several groups included. *)
C9_IdempotentGrouped ==
    (album.has /\ ParensGrouped(release.labels[1].name)) =>
        clean_duplicate_handling(album.labels[1]) = album.labels[1]

(* C9's case: a name with two groups, both stripped. *)
C9_Witness ==
    /\ album.has
    /\ ParensGrouped(release.labels[1].name)
    /\ Cardinality({k \in 1..Len(release.labels[1].name) :
                       release.labels[1].name[k] = "("}) = 2
    /\ Len(album.labels[1]) = Len(release.labels[1].name) - 8

NoTrackArtists(t) == ~t.artists.has \/ Len(t.artists.v) = 0

(* C10: a real track without per-track artists gets the release's artist
   list and sortArtist and building it does not fail; a track with per-track
   artists gets their full sequence and cleanName of the first. *)
C10_ArtistFallback ==
    /\ (pc = "error" /\ album.has /\ err \in {"KeyError", "AttributeError"}) =>
           ~(NoTrackArtists(Filtered[i + 1]) /\ ~IsSubtitle(Filtered[i + 1]))
    /\ \A k \in 1..Len(track_list) :
           IF NoTrackArtists(Entry(track_list[k]))
           THEN /\ track_list[k].artist = album.artists
                /\ track_list[k].sortartist = album.sort_artist
           ELSE /\ track_list[k].artist = Entry(track_list[k]).artists.v
                /\ track_list[k].sortartist =
                       clean_name(Entry(track_list[k]).artists.v[1])

(* C11 as stated: the release's sortArtist is cleanName of the first credited
   artist's raw name, a trailing ", The" moved to the front. *)
C11_SortArtistCleanName ==
    album.has => album.sort_artist = clean_name(release.artists[1])

(* C11, amended: the release's sortArtist is the first credited artist's raw
   name with its duplicate suffixes stripped and nothing else changed, so a
   trailing ", The" stays where it is; later credited artists do not count. *)
C11_SortArtistStripped ==
    album.has =>
        /\ album.sort_artist = clean_duplicate_handling(release.artists[1])
        /\ TheSuffix(clean_duplicate_handling(release.artists[1])) =>
               /\ TheSuffix(album.sort_artist)
               /\ album.sort_artist # album.artists[1]

(* C11's case: first artist "G (2), The" followed by a second artist: the
   sortArtist is "G, The", while the display artist is "The G". *)
C11_Witness ==
    /\ album.has
    /\ release.artists = <<NameDupThe, NameThe>>
    /\ album.sort_artist = <<"G", ",", " ", "T", "h", "e">>
    /\ album.artists[1] = <<"T", "h", "e", " ", "G">>

(* The pseudo-subtitle entries before place k of the filtered tracklist. *)
SubtitlesBefore(k) == {j \in 1..(k - 1) : IsSubtitle(Filtered[j])}

(* C12: every Track built carries the title of the most recent
   pseudo-subtitle entry before it in catalog order, whatever its disc
   number; a Track before any such entry carries none; and the pending
   subtitle during the pass is that of the last such entry consumed. *)
C12_SubtitleCarried ==
    /\ \A n \in 1..Len(track_list) :
           LET before == SubtitlesBefore(track_list[n].position)
           IN  IF before = {}
               THEN ~track_list[n].discsubtitle.has
               ELSE track_list[n].discsubtitle =
                        Some(Filtered[SetMax(before)].title)
    /\ IF SubtitlesBefore(i + 1) = {}
       THEN ~discsubtitle.has
       ELSE discsubtitle = Some(Filtered[SetMax(SubtitlesBefore(i + 1))].title)

(* C12's case: subtitle "A", then subtitle "B", then a track: the later
   subtitle has replaced the earlier one. *)
C12_Witness ==
    /\ pc = "done"
    /\ Len(Filtered) = 3
    /\ IsSubtitle(Filtered[1]) /\ Filtered[1].title = "A"
    /\ IsSubtitle(Filtered[2]) /\ Filtered[2].title = "B"
    /\ Len(track_list) = 1
    /\ track_list[1].discsubtitle = Some("B")

====
